---- MODULE Spec2Model ----
(***************************************************************************)
(* Model of upup/pkg/fi/cloudup/template_functions.go: the template        *)
(* functions bound to one TemplateFunctions value (cluster, instance       *)
(* groups, tags) and called one after another by the template renderer.    *)
(*                                                                         *)
(* Go values are represented as follows.                                   *)
(*   string      a TLA+ string ("\o" is Go's "+")                          *)
(*   []string    a sequence of strings; the nil slice is << >>             *)
(*   *T          a sequence of length at most one: Nil is << >> and a      *)
(*               pointer to v is <<v>>; dereferencing Nil is a panic and   *)
(*               is modelled where the code dereferences                   *)
(*   (v, error)  a record with a status "ok" / "err" / "panic", the value  *)
(*               returned and the error message                            *)
(***************************************************************************)
EXTENDS Integers, Sequences, FiniteSets, TLC

VARIABLES cluster, instanceGroups, tags, last, first

vars == <<cluster, instanceGroups, tags, last, first>>

---------------------------------------------------------------------------
(* Bounds of the model *)

\* longest instance-group list a context holds
MaxGroups == 2

---------------------------------------------------------------------------
(* Pointers *)

Nil == << >>

Ptr(v) == <<v>>

---------------------------------------------------------------------------
(* package strings, fmt *)

\* strings.HasSuffix
HasSuffix(s, suffix) ==
    /\ Len(s) >= Len(suffix)
    /\ (Len(suffix) = 0 \/ SubSeq(s, Len(s) - Len(suffix) + 1, Len(s)) = suffix)

\* strings.Contains
Contains(s, substr) ==
    \/ Len(substr) = 0
    \/ \E i \in 1..(Len(s) - Len(substr) + 1) :
          SubSeq(s, i, i + Len(substr) - 1) = substr

\* one character of a %q rendering: the quote and the backslash are escaped
QuoteChar(c) ==
    IF c = "\"" THEN "\\\"" ELSE IF c = "\\" THEN "\\\\" ELSE c

RECURSIVE QuoteBody(_)
QuoteBody(s) ==
    IF Len(s) = 0 THEN ""
    ELSE QuoteChar(SubSeq(s, 1, 1))
         \o (IF Len(s) = 1 THEN "" ELSE QuoteBody(SubSeq(s, 2, Len(s))))

\* the %q verb of fmt: the string double-quoted, with Go escapes
Quote(s) == "\"" \o QuoteBody(s) \o "\""

---------------------------------------------------------------------------
(* Imported packages: kops, fi, dns, glog *)

CloudProviderAWS == "aws"

CloudProviderGCE == "gce"

CloudProviderVSphere == "vsphere"

\* fi.BoolValue: the value pointed to, false for nil
BoolValue(v) == IF v = Nil THEN FALSE ELSE v[1]

\* dns.IsGossipHostname: the gossip hostname convention (suffix .k8s.local)
IsGossipHostname(name) == HasSuffix(name, ".k8s.local")

\* a line written by glog.Infoln
Infoln(msg) == [level |-> "INFO", msg |-> msg]

\* a line written by glog.Warningln
Warningln(msg) == [level |-> "WARNING", msg |-> msg]

\* the message of Go's nil-pointer dereference panic
NilDereference == "runtime error: invalid memory address or nil pointer dereference"

---------------------------------------------------------------------------
(* Outcomes of a call *)

\* the nil *kops.InstanceGroup
NilGroup == [name |-> "", id |-> 0]

\* return v, nil   (log: the glog lines the call wrote before returning)
Ok(argv, ig, found, log) ==
    [status |-> "ok", argv |-> argv, ig |-> ig, found |-> found,
     err |-> "", log |-> log]

\* return nil, err
Fail(err, log) ==
    [status |-> "err", argv |-> << >>, ig |-> NilGroup, found |-> FALSE,
     err |-> err, log |-> log]

\* the call did not return: it panicked
Panic(msg, log) ==
    [status |-> "panic", argv |-> << >>, ig |-> NilGroup, found |-> FALSE,
     err |-> msg, log |-> log]

---------------------------------------------------------------------------
(* HasTag *)

HasTagCall(tagSet, tag) == Ok(<< >>, NilGroup, tag \in tagSet, << >>)

---------------------------------------------------------------------------
(* GetInstanceGroup *)

\* a scan that returns the last group of the list whatever its name
GetInstanceGroupLastScanned(groups, name) ==
    IF Len(groups) > 0
    THEN Ok(<< >>, groups[Len(groups)], FALSE, << >>)
    ELSE Fail("InstanceGroup " \o Quote(name) \o " not found", << >>)

\* the first group, in list order, whose name equals the requested one
GetInstanceGroupCall(groups, name) ==
    IF \E i \in 1..Len(groups) : groups[i].name = name
    THEN LET i == CHOOSE j \in 1..Len(groups) :
                    /\ groups[j].name = name
                    /\ \A k \in 1..(j - 1) : groups[k].name # name
         IN  Ok(<< >>, groups[i], FALSE, << >>)
    ELSE Fail("InstanceGroup " \o Quote(name) \o " not found", << >>)

---------------------------------------------------------------------------
(* DnsControllerArgv *)

InfoWatchIngressFalse == Infoln("watch-ingress=false set on DNSController")

WarnWatchIngressTrue ==
    << Warningln("--watch-ingress=true set on DNSController. "),
       Warningln("this may cause problems with previously defined services: https://github.com/kubernetes/kops/issues/2496") >>

\* the policy with the flag passed through as --watch-ingress=true
WatchIngressPassThrough(spec) ==
    IF spec.ExternalDNS = Nil
    THEN [argv |-> <<"--watch-ingress=false">>, log |-> <<InfoWatchIngressFalse>>]
    ELSE IF BoolValue(spec.ExternalDNS[1].WatchIngress)
         THEN [argv |-> <<"--watch-ingress=true">>, log |-> WarnWatchIngressTrue]
         ELSE [argv |-> <<"--watch-ingress=false">>, log |-> << >>]

\* the policy without the informational line for an absent configuration
WatchIngressSilent(spec) ==
    IF spec.ExternalDNS = Nil
    THEN [argv |-> <<"--watch-ingress=false">>, log |-> << >>]
    ELSE IF BoolValue(spec.ExternalDNS[1].WatchIngress)
         THEN [argv |-> << >>, log |-> WarnWatchIngressTrue]
         ELSE [argv |-> <<"--watch-ingress=false">>, log |-> << >>]

\* the external-DNS policy: the arguments appended and the lines logged
WatchIngressStep(spec) ==
    IF spec.ExternalDNS = Nil
    THEN [argv |-> <<"--watch-ingress=false">>, log |-> <<InfoWatchIngressFalse>>]
    ELSE IF BoolValue(spec.ExternalDNS[1].WatchIngress)
         THEN [argv |-> << >>, log |-> WarnWatchIngressTrue]
         ELSE [argv |-> <<"--watch-ingress=false">>, log |-> << >>]

\* the value the cluster spec has after the call, written through the pointer
SpecAfterDnsControllerArgvStored(spec) ==
    IF spec.ExternalDNS = Nil
    THEN [spec EXCEPT !.ExternalDNS = Ptr([WatchIngress |-> Nil])]
    ELSE spec

\* the cluster spec after the call: the default ExternalDNSConfig is assigned
\* to the local variable externalDns only, tf.cluster.Spec is not written
SpecAfterDnsControllerArgv(spec) == spec

\* the dispatch with a guarded vSphere branch returning an error
DnsProviderStepChecked(spec) ==
    IF spec.CloudProvider = CloudProviderAWS
    THEN [status |-> "ok", argv |-> <<"--dns=aws-route53">>, err |-> ""]
    ELSE IF spec.CloudProvider = CloudProviderGCE
    THEN [status |-> "ok", argv |-> <<"--dns=google-clouddns">>, err |-> ""]
    ELSE IF spec.CloudProvider = CloudProviderVSphere
    THEN IF spec.CloudConfig = Nil \/ spec.CloudConfig[1].VSphereCoreDNSServer = Nil
         THEN [status |-> "err", argv |-> << >>,
               err |-> "unhandled cloudprovider " \o Quote(spec.CloudProvider)]
         ELSE [status |-> "ok",
               argv |-> <<"--dns=coredns",
                          "--dns-server=" \o spec.CloudConfig[1].VSphereCoreDNSServer[1]>>,
               err |-> ""]
    ELSE [status |-> "err", argv |-> << >>,
          err |-> "unhandled cloudprovider " \o Quote(spec.CloudProvider)]

\* the switch on the cloud provider
DnsProviderStep(spec) ==
    IF spec.CloudProvider = CloudProviderAWS
    THEN [status |-> "ok", argv |-> <<"--dns=aws-route53">>, err |-> ""]
    ELSE IF spec.CloudProvider = CloudProviderGCE
    THEN [status |-> "ok", argv |-> <<"--dns=google-clouddns">>, err |-> ""]
    ELSE IF spec.CloudProvider = CloudProviderVSphere
    THEN IF spec.CloudConfig = Nil \/ spec.CloudConfig[1].VSphereCoreDNSServer = Nil
         THEN [status |-> "panic", argv |-> << >>, err |-> NilDereference]
         ELSE [status |-> "ok",
               argv |-> <<"--dns=coredns",
                          "--dns-server=" \o spec.CloudConfig[1].VSphereCoreDNSServer[1]>>,
               err |-> ""]
    ELSE [status |-> "err", argv |-> << >>,
          err |-> "unhandled cloudprovider " \o Quote(spec.CloudProvider)]

\* the gossip seed emitted for every hostname
GossipStepAlways(spec) == <<"--gossip-seed=127.0.0.1:3999">>

GossipStep(spec) ==
    IF IsGossipHostname(spec.MasterInternalName)
    THEN <<"--gossip-seed=127.0.0.1:3999">>
    ELSE << >>

\* the zone flag with the name / id test inverted
ZoneStepInverted(spec) ==
    IF spec.DNSZone # ""
    THEN IF ~Contains(spec.DNSZone, ".")
         THEN <<"--zone=" \o spec.DNSZone>>
         ELSE <<"--zone=*/" \o spec.DNSZone>>
    ELSE << >>

ZoneStep(spec) ==
    IF spec.DNSZone # ""
    THEN IF Contains(spec.DNSZone, ".")
         THEN <<"--zone=" \o spec.DNSZone>>
         ELSE <<"--zone=*/" \o spec.DNSZone>>
    ELSE << >>

\* the call returning the arguments built so far next to the error
DnsControllerArgvPartial(spec) ==
    LET w == WatchIngressStep(spec)
        p == DnsProviderStep(spec)
    IN  IF p.status = "panic" THEN Panic(p.err, w.log)
        ELSE IF p.status = "err"
        THEN [Fail(p.err, w.log) EXCEPT !.argv = <<"/usr/bin/dns-controller">> \o w.argv]
        ELSE Ok(<<"/usr/bin/dns-controller">> \o w.argv \o p.argv
                  \o GossipStep(spec) \o ZoneStep(spec)
                  \o <<"--zone=*/*">> \o <<"-v=2">>,
                NilGroup, FALSE, w.log)

DnsControllerArgvCall(spec) ==
    LET w == WatchIngressStep(spec)
        p == DnsProviderStep(spec)
    IN  IF p.status = "panic" THEN Panic(p.err, w.log)
        ELSE IF p.status = "err" THEN Fail(p.err, w.log)
        ELSE Ok(<<"/usr/bin/dns-controller">> \o w.argv \o p.argv
                  \o GossipStep(spec) \o ZoneStep(spec)
                  \o <<"--zone=*/*">> \o <<"-v=2">>,
                NilGroup, FALSE, w.log)

---------------------------------------------------------------------------
(* ExternalDnsArgv *)

\* the dispatch with a vSphere branch
ExternalDnsArgvWithVSphere(spec) ==
    IF spec.CloudProvider = CloudProviderAWS
    THEN Ok(<<"--provider=aws">> \o <<"--source=ingress">>, NilGroup, FALSE, << >>)
    ELSE IF spec.CloudProvider = CloudProviderGCE
    THEN Ok(<<"--provider=google", "--google-project=" \o spec.Project>>
              \o <<"--source=ingress">>, NilGroup, FALSE, << >>)
    ELSE IF spec.CloudProvider = CloudProviderVSphere
    THEN Ok(<<"--provider=coredns">> \o <<"--source=ingress">>, NilGroup, FALSE, << >>)
    ELSE Fail("unhandled cloudprovider " \o Quote(spec.CloudProvider), << >>)

\* the GCE branch with the project flag left out when the project is empty
ExternalDnsArgvSkipEmptyProject(spec) ==
    IF spec.CloudProvider = CloudProviderAWS
    THEN Ok(<<"--provider=aws">> \o <<"--source=ingress">>, NilGroup, FALSE, << >>)
    ELSE IF spec.CloudProvider = CloudProviderGCE
    THEN Ok(<<"--provider=google">>
              \o (IF spec.Project = "" THEN << >>
                  ELSE <<"--google-project=" \o spec.Project>>)
              \o <<"--source=ingress">>, NilGroup, FALSE, << >>)
    ELSE Fail("unhandled cloudprovider " \o Quote(spec.CloudProvider), << >>)

ExternalDnsArgvCall(spec) ==
    IF spec.CloudProvider = CloudProviderAWS
    THEN Ok(<<"--provider=aws">> \o <<"--source=ingress">>, NilGroup, FALSE, << >>)
    ELSE IF spec.CloudProvider = CloudProviderGCE
    THEN Ok(<<"--provider=google", "--google-project=" \o spec.Project>>
              \o <<"--source=ingress">>, NilGroup, FALSE, << >>)
    ELSE Fail("unhandled cloudprovider " \o Quote(spec.CloudProvider), << >>)

---------------------------------------------------------------------------
(* The contexts and inputs explored *)

Providers == {"aws", "gce", "vsphere", "azure", ""}

ExternalDNSConfigs ==
    {Nil} \cup {Ptr([WatchIngress |-> w]) : w \in {Nil, Ptr(TRUE), Ptr(FALSE)}}

CloudConfigs ==
    {Nil} \cup {Ptr([VSphereCoreDNSServer |-> a]) : a \in {Nil, Ptr("10.0.0.1")}}

Hostnames == {"api.internal.example.com", "api.internal.dev.k8s.local"}

Zones == {"", "example.com", "Z123"}

Projects == {"", "proj-x"}

ClusterSpecs ==
    [CloudProvider : Providers, ExternalDNS : ExternalDNSConfigs,
     MasterInternalName : Hostnames, DNSZone : Zones, Project : Projects,
     CloudConfig : CloudConfigs]

GroupNames == {"master-1", "node-1", "nodes-2"}

LookupNames == {"master-1", "node-1", "node-2"}

TagSet == {"_aws", "_k8s_1_6"}

LookupTags == {"_aws", "_gce"}

\* the lists of at most MaxGroups groups with pairwise different names;
\* id is the identity of the record (its position in the list)
GroupLists ==
    UNION { { [i \in 1..n |-> [name |-> f[i], id |-> i]] :
                f \in { g \in [1..n -> GroupNames] :
                          \A i, j \in 1..n : i # j => g[i] # g[j] } } :
            n \in 0..MaxGroups }

\* last: the most recent call (again: the same synthesizer was called before);
\* first: what the first call of each synthesizer returned
NoCall ==
    [op |-> "none", arg |-> "", again |-> FALSE,
     res |-> Ok(<< >>, NilGroup, FALSE, << >>)]

---------------------------------------------------------------------------
(* The state machine *)

Init ==
    /\ cluster \in [Spec : ClusterSpecs]
    /\ instanceGroups \in GroupLists
    /\ tags = TagSet
    /\ last = NoCall
    /\ first = [DnsControllerArgv |-> Nil, ExternalDnsArgv |-> Nil]

\* a panic ends the process: nothing is called after it
Running == last.res.status # "panic"

HasTag(tag) ==
    /\ Running
    /\ last' = [op |-> "HasTag", arg |-> tag, again |-> FALSE,
                res |-> HasTagCall(tags, tag)]
    /\ UNCHANGED <<cluster, instanceGroups, tags, first>>

GetInstanceGroup(name) ==
    /\ Running
    /\ last' = [op |-> "GetInstanceGroup", arg |-> name, again |-> FALSE,
                res |-> GetInstanceGroupCall(instanceGroups, name)]
    /\ UNCHANGED <<cluster, instanceGroups, tags, first>>

DnsControllerArgv ==
    /\ Running
    /\ LET r == DnsControllerArgvCall(cluster.Spec)
       IN  /\ last' = [op |-> "DnsControllerArgv", arg |-> "",
                       again |-> first.DnsControllerArgv # Nil, res |-> r]
           /\ first' = IF first.DnsControllerArgv = Nil
                       THEN [first EXCEPT !.DnsControllerArgv = Ptr(r)]
                       ELSE first
    /\ cluster' = [cluster EXCEPT !.Spec = SpecAfterDnsControllerArgv(cluster.Spec)]
    /\ UNCHANGED <<instanceGroups, tags>>

ExternalDnsArgv ==
    /\ Running
    /\ LET r == ExternalDnsArgvCall(cluster.Spec)
       IN  /\ last' = [op |-> "ExternalDnsArgv", arg |-> "",
                       again |-> first.ExternalDnsArgv # Nil, res |-> r]
           /\ first' = IF first.ExternalDnsArgv = Nil
                       THEN [first EXCEPT !.ExternalDnsArgv = Ptr(r)]
                       ELSE first
    /\ UNCHANGED <<cluster, instanceGroups, tags>>

Next ==
    \/ \E tag \in LookupTags : HasTag(tag)
    \/ \E name \in LookupNames : GetInstanceGroup(name)
    \/ DnsControllerArgv
    \/ ExternalDnsArgv

Spec == Init /\ [][Next]_vars

---------------------------------------------------------------------------
(* Properties *)

S == cluster.Spec

DnsCalled == last.op = "DnsControllerArgv"

ExtCalled == last.op = "ExternalDnsArgv"

\* s starts with prefix
HasPrefix(s, prefix) ==
    /\ Len(s) >= Len(prefix)
    /\ (Len(prefix) = 0 \/ SubSeq(s, 1, Len(prefix)) = prefix)

\* the number of positions of seq holding x
Count(seq, x) == Cardinality({i \in 1..Len(seq) : seq[i] = x})

\* the subsequence of the elements of seq that start with prefix
RECURSIVE WithPrefix(_, _)
WithPrefix(seq, prefix) ==
    IF seq = << >> THEN << >>
    ELSE (IF HasPrefix(Head(seq), prefix) THEN <<Head(seq)>> ELSE << >>)
         \o WithPrefix(Tail(seq), prefix)

VSphereAddressPresent ==
    /\ S.CloudConfig # Nil
    /\ S.CloudConfig[1].VSphereCoreDNSServer # Nil

\* C1: for a cloud provider outside aws, gce, vsphere both synthesizers return
\* an error whose message carries the provider value, and a nil argument list
C1_UnhandledProviderNoPartialArgv ==
    ((DnsCalled \/ ExtCalled) /\ S.CloudProvider \notin {"aws", "gce", "vsphere"})
    => /\ last.res.status = "err"
       /\ last.res.argv = << >>
       /\ last.res.err = "unhandled cloudprovider \"" \o S.CloudProvider \o "\""
       /\ Contains(last.res.err, S.CloudProvider)

C1_Witness ==
    /\ DnsCalled
    /\ first.ExternalDnsArgv # Nil
    /\ S.CloudProvider = "azure"
    /\ last.res.status = "err"

\* C2 as stated: each synthesizer succeeds exactly for aws, gce and vsphere
\* (vsphere with its DNS server address configured)
C2_SameEnumerationForBoth ==
    (DnsCalled \/ ExtCalled)
    => (last.res.status = "ok"
        <=> \/ S.CloudProvider \in {"aws", "gce"}
            \/ S.CloudProvider = "vsphere" /\ VSphereAddressPresent)

\* C2 amended: DnsControllerArgv succeeds exactly for aws, gce and vsphere with
\* the address configured; ExternalDnsArgv succeeds exactly for aws and gce and
\* rejects every other provider, vsphere included, with an error
C2_EnumerationPerSynthesizer ==
    /\ DnsCalled
       => /\ last.res.status = "ok"
             <=> \/ S.CloudProvider \in {"aws", "gce"}
                 \/ S.CloudProvider = "vsphere" /\ VSphereAddressPresent
          /\ S.CloudProvider \notin {"aws", "gce", "vsphere"}
             => last.res.status = "err"
    /\ ExtCalled
       => /\ last.res.status = "ok" <=> S.CloudProvider \in {"aws", "gce"}
          /\ S.CloudProvider \notin {"aws", "gce"} => last.res.status = "err"

C2_Witness ==
    /\ ExtCalled
    /\ S.CloudProvider = "vsphere"
    /\ VSphereAddressPresent
    /\ last.res.status = "err"
    /\ first.DnsControllerArgv # Nil
    /\ first.DnsControllerArgv[1].status = "ok"

WatchIngressOff ==
    \/ S.ExternalDNS = Nil
    \/ S.ExternalDNS[1].WatchIngress = Nil
    \/ S.ExternalDNS[1].WatchIngress = Ptr(FALSE)

\* C3: a successful DnsControllerArgv result holds --watch-ingress=false, once
\* and at index 1 after the executable, exactly when the external-DNS
\* configuration is absent or its flag is unset or false; otherwise the flag is
\* absent and no --watch-ingress=true takes its place
C3_WatchIngressFlag ==
    (DnsCalled /\ last.res.status = "ok")
    => LET argv == last.res.argv
       IN  /\ argv[1] = "/usr/bin/dns-controller"
           /\ WatchIngressOff
              => /\ Count(argv, "--watch-ingress=false") = 1
                 /\ argv[2] = "--watch-ingress=false"
           /\ ~WatchIngressOff
              => /\ Count(argv, "--watch-ingress=false") = 0
                 /\ WithPrefix(argv, "--watch-ingress") = << >>
           /\ Count(argv, "--watch-ingress=true") = 0

C3_Witness ==
    /\ DnsCalled
    /\ last.res.status = "ok"
    /\ S.ExternalDNS = Ptr([WatchIngress |-> Ptr(TRUE)])
    /\ Count(last.res.argv, "--watch-ingress=false") = 0

\* the argument list C4 describes for a supported provider
C4_Expected ==
    <<"/usr/bin/dns-controller">>
    \o (IF WatchIngressOff THEN <<"--watch-ingress=false">> ELSE << >>)
    \o (IF S.CloudProvider = "aws" THEN <<"--dns=aws-route53">>
        ELSE IF S.CloudProvider = "gce" THEN <<"--dns=google-clouddns">>
        ELSE <<"--dns=coredns",
               "--dns-server=" \o S.CloudConfig[1].VSphereCoreDNSServer[1]>>)
    \o (IF IsGossipHostname(S.MasterInternalName)
        THEN <<"--gossip-seed=127.0.0.1:3999">> ELSE << >>)
    \o (IF S.DNSZone = "" THEN << >>
        ELSE IF Contains(S.DNSZone, ".") THEN <<"--zone=" \o S.DNSZone>>
        ELSE <<"--zone=*/" \o S.DNSZone>>)
    \o <<"--zone=*/*">>
    \o <<"-v=2">>

C4_AwsPlainCase ==
    /\ S.CloudProvider = "aws"
    /\ S.ExternalDNS = Nil
    /\ ~IsGossipHostname(S.MasterInternalName)
    /\ S.DNSZone = ""

\* C4: a successful DnsControllerArgv result is the in-order concatenation of
\* the executable, the optional --watch-ingress=false, the provider flags, the
\* gossip seed exactly for a gossip hostname, the optional zone flag,
\* --zone=*/* and -v=2; the plain AWS case gives the five-element list
C4_ArgvConcatenation ==
    (DnsCalled /\ last.res.status = "ok")
    => /\ last.res.argv = C4_Expected
       /\ last.res.argv[1] = "/usr/bin/dns-controller"
       /\ last.res.argv[Len(last.res.argv)] = "-v=2"
       /\ Count(last.res.argv, "--gossip-seed=127.0.0.1:3999")
          = (IF IsGossipHostname(S.MasterInternalName) THEN 1 ELSE 0)
       /\ C4_AwsPlainCase
          => last.res.argv = <<"/usr/bin/dns-controller", "--watch-ingress=false",
                               "--dns=aws-route53", "--zone=*/*", "-v=2">>

C4_Witness ==
    /\ DnsCalled
    /\ last.res.status = "ok"
    /\ S.CloudProvider = "vsphere"
    /\ IsGossipHostname(S.MasterInternalName)
    /\ S.DNSZone = "Z123"
    /\ Len(last.res.argv) = 8

\* C5: in a successful DnsControllerArgv result --zone=*/* is the last zone
\* flag and the second-to-last element; a non-empty zone adds exactly one zone
\* flag immediately before it, --zone=<zone> when the zone contains a "." and
\* --zone=*/<zone> otherwise; an empty zone leaves --zone=*/* the only zone flag
C5_ZoneFlags ==
    (DnsCalled /\ last.res.status = "ok")
    => LET argv == last.res.argv
           n == Len(argv)
           zones == WithPrefix(argv, "--zone")
       IN  /\ n >= 2
           /\ argv[n - 1] = "--zone=*/*"
           /\ zones[Len(zones)] = "--zone=*/*"
           /\ S.DNSZone = "" => zones = <<"--zone=*/*">>
           /\ S.DNSZone # ""
              => /\ Len(zones) = 2
                 /\ argv[n - 2] = zones[1]
                 /\ zones[1] = (IF Contains(S.DNSZone, ".")
                                THEN "--zone=" \o S.DNSZone
                                ELSE "--zone=*/" \o S.DNSZone)
           /\ S.DNSZone = "example.com" => zones[1] = "--zone=example.com"
           /\ S.DNSZone = "Z123" => zones[1] = "--zone=*/Z123"

C5_Witness ==
    /\ DnsCalled
    /\ last.res.status = "ok"
    /\ S.CloudProvider = "gce"
    /\ S.DNSZone = "example.com"
    /\ WithPrefix(last.res.argv, "--zone") = <<"--zone=example.com", "--zone=*/*">>

\* C6: ExternalDnsArgv returns --provider=aws, --source=ingress for AWS and
\* --provider=google, --google-project=P, --source=ingress for GCE with project
\* P (an empty P too), whatever the external-DNS configuration, the zone and
\* the hostname are; every successful result ends with --source=ingress
C6_ExternalDnsArgv ==
    ExtCalled
    => /\ S.CloudProvider = "aws"
          => /\ last.res.status = "ok"
             /\ last.res.argv = <<"--provider=aws", "--source=ingress">>
       /\ S.CloudProvider = "gce"
          => /\ last.res.status = "ok"
             /\ last.res.argv = <<"--provider=google",
                                  "--google-project=" \o S.Project,
                                  "--source=ingress">>
       /\ last.res.status = "ok"
          => last.res.argv[Len(last.res.argv)] = "--source=ingress"
       /\ last.res.log = << >>

C6_Witness ==
    /\ ExtCalled
    /\ S.CloudProvider = "gce"
    /\ S.Project = "proj-x"
    /\ S.ExternalDNS # Nil
    /\ S.DNSZone = "Z123"
    /\ last.res.argv = <<"--provider=google", "--google-project=proj-x",
                         "--source=ingress">>

UniqueNames ==
    \A i, j \in 1..Len(instanceGroups) :
        i # j => instanceGroups[i].name # instanceGroups[j].name

\* C7: over groups with unique names GetInstanceGroup(name) returns the group
\* named name with no error when there is one, and otherwise no group with a
\* not-found error carrying name; never a group and an error, never a group
\* of another name
C7_GetInstanceGroup ==
    (last.op = "GetInstanceGroup" /\ UniqueNames)
    => LET present == \E i \in 1..Len(instanceGroups) :
                          instanceGroups[i].name = last.arg
       IN  /\ present
              => /\ last.res.status = "ok"
                 /\ last.res.err = ""
                 /\ last.res.ig.name = last.arg
                 /\ \E i \in 1..Len(instanceGroups) :
                        instanceGroups[i] = last.res.ig
           /\ ~present
              => /\ last.res.status = "err"
                 /\ last.res.ig = NilGroup
                 /\ last.res.err = "InstanceGroup \"" \o last.arg \o "\" not found"
                 /\ Contains(last.res.err, last.arg)
           /\ last.res.status = "err" <=> last.res.ig = NilGroup

C7_Witness ==
    /\ last.op = "GetInstanceGroup"
    /\ last.arg = "node-2"
    /\ Len(instanceGroups) = 2
    /\ instanceGroups[1].name = "master-1"
    /\ instanceGroups[2].name = "node-1"
    /\ last.res.status = "err"

\* C8: no call changes the cluster, the instance groups or the tags (an absent
\* external-DNS configuration stays absent), and a synthesizer called again
\* returns what its first call returned
C8_ContextUnchangedAndIdempotent ==
    [][/\ cluster' = cluster
       /\ instanceGroups' = instanceGroups
       /\ tags' = tags
       /\ (last'.op = "DnsControllerArgv" /\ last'.again)
          => last'.res = first.DnsControllerArgv[1]
       /\ (last'.op = "ExternalDnsArgv" /\ last'.again)
          => last'.res = first.ExternalDnsArgv[1]]_vars

C8_Witness ==
    /\ DnsCalled
    /\ last.again
    /\ last.res.status = "ok"
    /\ S.ExternalDNS = Nil
    /\ first.ExternalDnsArgv # Nil

HasLevel(log, level) == \E i \in 1..Len(log) : log[i].level = level

\* C9 as stated: the informational line exactly for an absent configuration,
\* the warning exactly for watch-ingress = true, and a call that recorded a
\* diagnostic returned a successful argument list
C9_DiagnosticsOnlyOnSuccess ==
    DnsCalled
    => /\ HasLevel(last.res.log, "INFO") <=> S.ExternalDNS = Nil
       /\ HasLevel(last.res.log, "WARNING") <=> ~WatchIngressOff
       /\ last.res.log # << >> => last.res.status = "ok"

\* C9 amended: the informational line is recorded exactly for an absent
\* configuration and the warning exactly for watch-ingress = true, none
\* otherwise, before the provider is dispatched and so whether or not the call
\* then succeeds; on success the flag is omitted exactly when the warning was
\* recorded
C9_DiagnosticsBeforeDispatch ==
    DnsCalled
    => /\ HasLevel(last.res.log, "INFO") <=> S.ExternalDNS = Nil
       /\ HasLevel(last.res.log, "WARNING") <=> ~WatchIngressOff
       /\ (S.ExternalDNS # Nil /\ WatchIngressOff) <=> last.res.log = << >>
       /\ ~(HasLevel(last.res.log, "INFO") /\ HasLevel(last.res.log, "WARNING"))
       /\ last.res.status = "ok"
          => (HasLevel(last.res.log, "WARNING")
              <=> Count(last.res.argv, "--watch-ingress=false") = 0)

C9_Witness ==
    /\ DnsCalled
    /\ S.CloudProvider = "azure"
    /\ S.ExternalDNS = Nil
    /\ last.res.status = "err"
    /\ HasLevel(last.res.log, "INFO")

\* C10: for vsphere without the DNS server address (or without the cloud
\* configuration holding it) DnsControllerArgv returns neither an argument list
\* nor an error value, it panics on the dereference; with the address A the
\* result holds --dns=coredns immediately followed by --dns-server=A
C10_VSphereAddressRequired ==
    (DnsCalled /\ S.CloudProvider = "vsphere")
    => /\ ~VSphereAddressPresent
          => /\ last.res.status = "panic"
             /\ last.res.argv = << >>
             /\ ~HasPrefix(last.res.err, "unhandled cloudprovider")
       /\ VSphereAddressPresent
          => /\ last.res.status = "ok"
             /\ \E i \in 1..(Len(last.res.argv) - 1) :
                    /\ last.res.argv[i] = "--dns=coredns"
                    /\ last.res.argv[i + 1]
                       = "--dns-server=" \o S.CloudConfig[1].VSphereCoreDNSServer[1]

C10_Witness ==
    /\ DnsCalled
    /\ S.CloudProvider = "vsphere"
    /\ S.CloudConfig = Ptr([VSphereCoreDNSServer |-> Nil])
    /\ last.res.status = "panic"

====
